---------------------------- MODULE Spec2Model ----------------------------
(* The Assist pipeline builder (AudioStreamPipelineBuilder) of                *)
(* homeassistant/components/assist_pipeline/__init__.py, together with the    *)
(* PipelineInput / PipelineRun state machine it drives.  The builder is       *)
(* translated from the source; PipelineInput.validate, PipelineRun.execute,   *)
(* the pipeline registry and the wake-word cooldown live in pipeline.py,      *)
(* which is not part of the source tree at hand, and are modelled from the    *)
(* design document (sections 3 to 7).  The module also holds the             *)
(* AlexaFlashBriefingView of homeassistant/components/alexa/                  *)
(* flash_briefings.py, translated from the source.                            *)
EXTENDS Integers, Sequences, FiniteSets, TLC

VARIABLES
    builder,        \* the fields of the AudioStreamPipelineBuilder
    pc,             \* position of the build() coroutine
    error,          \* the exception build() raised, "none" if none
    run,            \* the PipelineRun build() constructed
    pinput,         \* the PipelineInput build() constructed
    tokens,         \* number of conversation identifiers generated so far
    cur,            \* the stage execute() is at
    events,         \* events delivered to the event callback, in order
    cancelled,      \* cancellation signalled on the run's context
    now,            \* the monotonic clock
    stage_started,  \* clock value when the scanning stage started
    last_wake_up,   \* hass.data[DATA_LAST_WAKE_UP]: wake word -> timestamp
    src_pos,        \* number of chunks read from the audio source
    replay,         \* the ReplayBuffer of the run
    stt_consumed,   \* chunks the STT engine was fed, in order
    obs,            \* observations of the calls made (history)
    preferred,      \* the registry's default pipeline, "none" if there is none
    alexa           \* the AlexaFlashBriefingView, its last request and response

vars == <<builder, pc, error, run, pinput, tokens, cur, events, cancelled, now,
          stage_started, last_wake_up, src_pos, replay, stt_consumed, obs,
          preferred, alexa>>

-----------------------------------------------------------------------------
(* Bounds of the model *)

\* chunks the audio source delivers before it is exhausted
MaxChunks == 3
\* largest configured pre-roll (chunks kept by the ReplayBuffer)
MaxPreroll == 2
\* largest clock value
MaxTime == 2
\* the cooldown window, in clock ticks
Cooldown == 2
\* the wake-word detection timeout, in clock ticks
WakeTimeout == 2
\* the number of build() calls followed on one builder
MaxBuilds == 2
\* the speech-to-text silence timeout, in clock ticks
SilenceTimeout == 2
\* the timeout enclosing the wait for an engine result, in clock ticks
EngineTimeout == 1

-----------------------------------------------------------------------------
(* PipelineStage: ordered enum {WAKE_WORD, STT, INTENT, TTS} *)

WAKE_WORD == 1
STT == 2
INTENT == 3
TTS == 4
Stages == {WAKE_WORD, STT, INTENT, TTS}

\* the implicit terminal stage END
END == 5

WakeWords == {"w1", "w2"}

\* the wake-word phrase a caller may supply with the input
KnownPhrase == "w1"

\* no timestamp recorded
Never == -1


-----------------------------------------------------------------------------
(* The external collaborators: pipeline registry and engine registry *)

\* the pipeline configurations in storage: "p1" resolves every engine, the
\* configuration "p2" names a text-to-speech engine that does not resolve
Pipelines == {"p1", "p2"}

\* the "preferred" default pipeline
PreferredPipeline == "p1"

\* identifiers a caller may assign to builder.pipeline_id
PipelineIds == {"p2", "nope"}

\* PipelineRegistry.get(pipeline_id | None)
async_get_pipeline(pipeline_id) ==
    IF pipeline_id = "none"
    THEN IF preferred = "none" THEN "not_found" ELSE preferred
    ELSE IF pipeline_id \in Pipelines THEN pipeline_id
    ELSE "not_found"

\* the stages whose engine resolves for a pipeline configuration
ResolvableEngines(pipeline) ==
    IF pipeline = "p2" THEN Stages \ {TTS} ELSE Stages

\* the audio formats the speech-to-text engine supports
SupportedFormats == {"pcm"}

\* values a caller may assign to builder.stt_metadata
SttFormats == {"pcm", "opus"}

-----------------------------------------------------------------------------
(* AlexaFlashBriefingView (homeassistant/components/alexa/flash_briefings.py) *)

\* Python values of the configuration and of the query: None, a string, a
\* template, a list of briefing items
None == [kind |-> "none", text |-> "", items |-> <<>>]
Str(x) == [kind |-> "str", text |-> x, items |-> <<>>]
Template(x) == [kind |-> "template", text |-> x, items |-> <<>>]
List(l) == [kind |-> "list", text |-> "", items |-> l]

\* the passwords a configuration or a request may carry
Passwords == {"secret", "guess", ""}

\* briefing items as configured
ItemNews ==
    [title |-> Str("News"), text |-> Template("{{ headline }}"),
     uid |-> Str("uid-news"), audio |-> None, display_url |-> None]
ItemWeather ==
    [title |-> None, text |-> Str("Sunny"), uid |-> None,
     audio |-> Str("http://audio"), display_url |-> Template("{{ url }}")]

\* what one briefing identifier may be configured as: absent, or a list
BriefingConfigs ==
    {None, List(<<>>), List(<<ItemNews>>), List(<<ItemNews, ItemWeather>>)}

\* the flash_briefings configuration: the password under CONF_PASSWORD and a
\* list of items under each configured briefing identifier
FlashBriefings(password, news, weather) ==
    [k \in {"password"}
           \cup (IF news.kind = "none" THEN {} ELSE {"news"})
           \cup (IF weather.kind = "none" THEN {} ELSE {"weather"})
       |-> IF k = "password" THEN Str(password)
           ELSE IF k = "news" THEN news
           ELSE weather]

\* briefing identifiers a request may name
BriefingIds == {"news", "weather", "password", "unknown"}

\* values of uuid.uuid4() and of the formatted dt_util.utcnow()
Uuids == {"uuid-a", "uuid-b"}
Dates == {"2026-11-01T00:00:00.0Z"}

\* dict.get(key): None when the key is absent
DictGet(d, k) == IF k \in DOMAIN d THEN d[k] ELSE None

\* dict[key] = value
DictSet(d, k, v) == [x \in DOMAIN d \cup {k} |-> IF x = k THEN v ELSE d[x]]

\* Template.async_render(parse_result=False)
async_render(t) ==
    IF t = "{{ headline }}" THEN "Headline"
    ELSE IF t = "{{ url }}" THEN "http://display"
    ELSE t

\* responses: the body is b"" or the JSON rendering of a briefing
Empty == [kind |-> "bytes", json |-> <<>>]
Json(briefing) == [kind |-> "json", json |-> briefing]

NoRequest == [query |-> [password |-> None], briefing_id |-> ""]
NoResponse == [body |-> Empty, status |-> "none"]

\* AlexaFlashBriefingView(hass, flash_briefings)
View(flash_briefings) ==
    [flash_briefings |-> flash_briefings,
     request |-> NoRequest,
     response |-> NoResponse]

\* the view of the instance whose pipeline builder is followed
AlexaInit == View(FlashBriefings("secret", None, None))

\* hmac.compare_digest on the UTF-8 encodings
compare_digest(a, b) == a = b

_authenticate(self, request, briefing_id) ==
    IF request.query.password.kind = "none"
    THEN FALSE
    ELSE IF ~compare_digest(request.query.password.text,
                            self.flash_briefings["password"].text)
    THEN FALSE
    ELSE TRUE

_add_text_field(output, item, conf_key, attr_key) ==
    IF item[conf_key].kind # "none"
    THEN IF item[conf_key].kind = "template"
         THEN DictSet(output, attr_key, async_render(item[conf_key].text))
         ELSE DictSet(output, attr_key, item[conf_key].text)
    ELSE output

_add_uid(output, item, fresh) ==
    LET uid == IF item.uid.kind = "none" THEN fresh.uuid ELSE item.uid.text
    IN  DictSet(output, "uid", uid)

_process_briefing_item(item, fresh) ==
    LET o0 == [k \in {} |-> ""]
        o1 == _add_text_field(o0, item, "title", "titleText")
        o2 == _add_text_field(o1, item, "text", "mainText")
        o3 == _add_uid(o2, item, fresh)
        o4 == _add_text_field(o3, item, "audio", "streamUrl")
        o5 == _add_text_field(o4, item, "display_url", "redirectionUrl")
    IN  DictSet(o5, "updateDate", fresh.date)

_generate_briefing(briefing_config, fresh) ==
    [i \in 1..Len(briefing_config) |->
        _process_briefing_item(briefing_config[i], fresh)]

\* variant: the briefing is looked up before the password is checked
get_LookupFirst(self, request, briefing_id, fresh) ==
    LET briefing_config == DictGet(self.flash_briefings, briefing_id) IN
    IF briefing_config.kind # "list"
    THEN [body |-> Empty, status |-> "NOT_FOUND"]
    ELSE IF ~_authenticate(self, request, briefing_id)
    THEN [body |-> Empty, status |-> "UNAUTHORIZED"]
    ELSE [body |-> Json(_generate_briefing(briefing_config.items, fresh)),
          status |-> "OK"]

\* AlexaFlashBriefingView.get
get(self, request, briefing_id, fresh) ==
    IF ~_authenticate(self, request, briefing_id)
    THEN [body |-> Empty, status |-> "UNAUTHORIZED"]
    ELSE LET briefing_config == DictGet(self.flash_briefings, briefing_id) IN
         IF briefing_config.kind # "list"
         THEN [body |-> Empty, status |-> "NOT_FOUND"]
         ELSE [body |-> Json(_generate_briefing(briefing_config.items, fresh)),
               status |-> "OK"]

-----------------------------------------------------------------------------
(* AudioStreamPipelineBuilder *)

\* a conversation identifier: absent, supplied by the caller, or generated
NoConversation == [kind |-> "none", n |-> 0]
GivenConversation == [kind |-> "given", n |-> 0]
NewToken(n) == [kind |-> "generated", n |-> n]

\* WakeWordSettings: None, or settings with a pre-roll of p chunks
NoSettings == [present |-> FALSE, preroll |-> 0]
Settings(p) == [present |-> TRUE, preroll |-> p]

\* variant: the builder's default range starts at the wake-word stage
DefaultStartStage_WakeWord == WAKE_WORD

DefaultStartStage == STT

\* variant: the builder's default range ends at the intent stage
DefaultEndStage_Intent == INTENT

DefaultEndStage == TTS

\* AudioStreamPipelineBuilder.__init__: every parameter None, range STT..TTS
BuilderInit ==
    [context |-> FALSE,
     event_callback |-> FALSE,
     stt_metadata |-> "none",
     stt_stream |-> FALSE,
     wake_word_phrase |-> "none",
     pipeline_id |-> "none",
     conversation_id |-> NoConversation,
     wake_word_settings |-> NoSettings,
     start_stage |-> DefaultStartStage,
     end_stage |-> DefaultEndStage]

NoRun ==
    [exists |-> FALSE, pipeline |-> "none", start_stage |-> 0, end_stage |-> 0,
     preroll |-> 0, id |-> 0]

NoInput ==
    [exists |-> FALSE, conversation_id |-> NoConversation,
     stt_metadata |-> "none", wake_word_phrase |-> "none", id |-> 0]

NoDetection == [word |-> "none", at |-> Never, honored |-> FALSE, prior |-> Never]

ObsInit ==
    [stage_assigned |-> FALSE,   \* start_stage or end_stage was assigned
     registry_queried |-> FALSE, \* async_get_pipeline was called
     validate_calls |-> 0,       \* calls of PipelineInput.validate
     validate_done |-> FALSE,    \* validate returned without raising
     validate_error |-> "none",  \* what validate raised
     execute_calls |-> 0,        \* calls of PipelineInput.execute
     map_touched |-> FALSE,      \* the run read or wrote the cooldown map
     detection |-> NoDetection,  \* the run's latest wake-word detection
     honored_at |-> [w \in WakeWords |-> Never], \* last honored detection
     detected_at |-> 0,          \* chunk index of the honored detection
     failed_stage |-> 0,         \* stage whose engine failed
     timed_out |-> FALSE,        \* a stage deadline ended the run
     built |-> 0,                \* runs (and inputs) constructed so far
     validated |-> <<>>,         \* the inputs validate() was awaited on
     executed |-> <<>>,          \* the input and run of each execute()
     honored_early |-> FALSE,    \* a detection was honored, by any run,
                                 \* within the cooldown of the one before
     stt_len_at_cancel |-> -1,   \* chunks STT had consumed when cancelled
     inputs |-> [s \in {INTENT, TTS} |-> "none"]] \* what each engine was given

\* variant: the map starts with a timestamp for every wake word
async_setup_stamped == [w \in WakeWords |-> 0]

\* async_setup: hass.data[DATA_LAST_WAKE_UP] = {}
async_setup_last_wake_up == [w \in WakeWords |-> Never]

Init ==
    /\ builder = BuilderInit
    /\ pc = "idle"
    /\ error = "none"
    /\ run = NoRun
    /\ pinput = NoInput
    /\ tokens = 0
    /\ cur = 0
    /\ events = <<>>
    /\ cancelled = FALSE
    /\ now = 0
    /\ stage_started = 0
    /\ last_wake_up = async_setup_last_wake_up
    /\ src_pos = 0
    /\ replay = <<>>
    /\ stt_consumed = <<>>
    /\ obs = ObsInit
    /\ preferred \in {PreferredPipeline, "none"}
    /\ alexa = AlexaInit

RunVars == <<pc, error, run, pinput, tokens, cur, events, cancelled, now,
             stage_started, last_wake_up, src_pos, replay, stt_consumed,
             preferred>>

\* the caller assigns a builder field before calling build()
SetContext ==
    /\ pc = "idle"
    /\ builder' = [builder EXCEPT !.context = TRUE]
    /\ UNCHANGED <<RunVars, obs, alexa>>

SetEventCallback ==
    /\ pc = "idle"
    /\ builder' = [builder EXCEPT !.event_callback = TRUE]
    /\ UNCHANGED <<RunVars, obs, alexa>>

SetSttMetadata ==
    /\ pc = "idle"
    /\ \E f \in SttFormats : builder' = [builder EXCEPT !.stt_metadata = f]
    /\ UNCHANGED <<RunVars, obs, alexa>>

SetSttStream ==
    /\ pc = "idle"
    /\ builder' = [builder EXCEPT !.stt_stream = TRUE]
    /\ UNCHANGED <<RunVars, obs, alexa>>

SetWakeWordPhrase ==
    /\ pc = "idle"
    /\ builder' = [builder EXCEPT !.wake_word_phrase = KnownPhrase]
    /\ UNCHANGED <<RunVars, obs, alexa>>

SetPipelineId ==
    /\ pc = "idle"
    /\ \E p \in PipelineIds : builder' = [builder EXCEPT !.pipeline_id = p]
    /\ UNCHANGED <<RunVars, obs, alexa>>

SetConversationId ==
    /\ pc = "idle"
    /\ builder' = [builder EXCEPT !.conversation_id = GivenConversation]
    /\ UNCHANGED <<RunVars, obs, alexa>>

SetWakeWordSettings ==
    /\ pc = "idle"
    /\ \E p \in 1..MaxPreroll :
          builder' = [builder EXCEPT !.wake_word_settings = Settings(p)]
    /\ UNCHANGED <<RunVars, obs, alexa>>

SetStartStage ==
    /\ pc = "idle"
    /\ \E s \in Stages : builder' = [builder EXCEPT !.start_stage = s]
    /\ obs' = [obs EXCEPT !.stage_assigned = TRUE]
    /\ UNCHANGED <<RunVars, alexa>>

SetEndStage ==
    /\ pc = "idle"
    /\ \E s \in Stages : builder' = [builder EXCEPT !.end_stage = s]
    /\ obs' = [obs EXCEPT !.stage_assigned = TRUE]
    /\ UNCHANGED <<RunVars, alexa>>

\* variant: the audio stream is left out of the required-field check
RequiredPresent_NoStream(b) ==
    /\ b.context
    /\ b.event_callback
    /\ b.stt_metadata # "none"

\* all([context, event_callback, stt_metadata, stt_stream])
RequiredPresent(b) ==
    /\ b.context
    /\ b.event_callback
    /\ b.stt_metadata # "none"
    /\ b.stt_stream

\* variant: start_stage and end_stage are passed in each other's place
NewRun_Swapped(b, pipeline) ==
    [exists |-> TRUE,
     pipeline |-> pipeline,
     start_stage |-> b.end_stage,
     end_stage |-> b.start_stage,
     preroll |-> b.wake_word_settings.preroll,
     id |-> obs.built + 1]

\* variant: the wake-word settings are not handed to the run
NewRun_NoSettings(b, pipeline) ==
    [exists |-> TRUE,
     pipeline |-> pipeline,
     start_stage |-> b.start_stage,
     end_stage |-> b.end_stage,
     preroll |-> 0,
     id |-> obs.built + 1]

\* variant: the run is bound to the identifier given, not to what it
\* resolved to
NewRun_Unresolved(b, pipeline) ==
    [exists |-> TRUE,
     pipeline |-> b.pipeline_id,
     start_stage |-> b.start_stage,
     end_stage |-> b.end_stage,
     preroll |-> b.wake_word_settings.preroll,
     id |-> obs.built + 1]

\* variant: a builder that has built a run hands out that run again
NewRun_Reused(b, pipeline) ==
    IF run.exists THEN run
    ELSE [exists |-> TRUE,
          pipeline |-> pipeline,
          start_stage |-> b.start_stage,
          end_stage |-> b.end_stage,
          preroll |-> b.wake_word_settings.preroll,
          id |-> obs.built + 1]

\* PipelineRun(...) as build() constructs it
NewRun(b, pipeline) ==
    [exists |-> TRUE,
     pipeline |-> pipeline,
     start_stage |-> b.start_stage,
     end_stage |-> b.end_stage,
     preroll |-> b.wake_word_settings.preroll,
     id |-> obs.built + 1]

\* variant: the input always carries a wake-word phrase
NewInput_PhraseKnown(b) ==
    [exists |-> TRUE,
     conversation_id |-> b.conversation_id,
     stt_metadata |-> b.stt_metadata,
     wake_word_phrase |-> KnownPhrase,
     id |-> obs.built + 1]

\* PipelineInput(...) as build() constructs it
NewInput(b) ==
    [exists |-> TRUE,
     conversation_id |-> b.conversation_id,
     stt_metadata |-> b.stt_metadata,
     wake_word_phrase |-> b.wake_word_phrase,
     id |-> obs.built + 1]

\* the stage range a PipelineRun accepts at construction: the data model's
\* invariant start_stage <= end_stage
ValidStageRange(r) == r.start_stage <= r.end_stage

\* build() gets as far as constructing the run and its input
Constructs(b) ==
    /\ async_get_pipeline(b.pipeline_id) # "not_found"
    /\ ValidStageRange(NewRun(b, async_get_pipeline(b.pipeline_id)))

\* build(), up to its first await: the required-field check, the pipeline
\* lookup and the construction of the run and of its input
Build ==
    /\ pc = "idle"
    /\ IF ~RequiredPresent(builder)
       THEN /\ pc' = "raised"
            /\ error' = "ValueError"
            /\ UNCHANGED <<run, pinput, obs>>
       ELSE /\ obs' = [obs EXCEPT !.registry_queried = TRUE,
                                  !.built = IF Constructs(builder)
                                            THEN @ + 1 ELSE @]
            /\ IF async_get_pipeline(builder.pipeline_id) = "not_found"
               THEN /\ pc' = "raised"
                    /\ error' = "PipelineNotFound"
                    /\ UNCHANGED <<run, pinput>>
               ELSE LET r == NewRun(builder,
                                    async_get_pipeline(builder.pipeline_id))
                    IN  IF ~ValidStageRange(r)
                        THEN /\ pc' = "raised"
                             /\ error' = "InvalidPipelineStages"
                             /\ UNCHANGED <<run, pinput>>
                        ELSE /\ run' = r
                             /\ pinput' = NewInput(builder)
                             /\ pc' = "validate"
                             /\ error' = "none"
    /\ UNCHANGED <<builder, preferred, alexa, tokens, cur, events, cancelled,
                   now, stage_started, last_wake_up, src_pos, replay,
                   stt_consumed>>

-----------------------------------------------------------------------------
(* PipelineInput.validate (design section 4.2) *)

\* the stages a run executes: those in the inclusive range
InRange(rn, s) == rn.start_stage <= s /\ s <= rn.end_stage

\* the conversation identifier defaults to a newly generated token if absent
ConversationIdOf(inp, tok) ==
    IF inp.conversation_id.kind = "none" THEN NewToken(tok + 1)
    ELSE inp.conversation_id

\* the first error validation surfaces, "none" if the input is valid
ValidationError(inp, rn) ==
    IF inp.stt_metadata \notin SupportedFormats THEN "UnsupportedFormatError"
    ELSE IF \E s \in Stages : InRange(rn, s)
                              /\ s \notin ResolvableEngines(rn.pipeline)
    THEN "EngineNotFoundError"
    ELSE "none"

\* validate(): the error raised, the input and the token counter it leaves
validate(inp, rn, tok) ==
    [error |-> ValidationError(inp, rn),
     input |-> [inp EXCEPT !.conversation_id = ConversationIdOf(inp, tok)],
     tokens |-> IF inp.conversation_id.kind = "none" THEN tok + 1 ELSE tok]

\* variant: a validation error does not leave build()
Validate_ErrorIgnored ==
    /\ pc = "validate"
    /\ LET r == validate(pinput, run, tokens) IN
          /\ pinput' = r.input
          /\ tokens' = r.tokens
          /\ error' = r.error
          /\ pc' = "execute"
          /\ obs' = [obs EXCEPT !.validate_calls = @ + 1,
                                !.validated = Append(@, pinput.id),
                                !.validate_done = (r.error = "none"),
                                !.validate_error = r.error]
    /\ UNCHANGED <<builder, preferred, alexa, run, cur, events, cancelled,
                   now, stage_started, last_wake_up, src_pos, replay,
                   stt_consumed>>

\* variant: the generated conversation identifier is not kept on the input
Validate_TokenDropped ==
    /\ pc = "validate"
    /\ LET r == validate(pinput, run, tokens) IN
          /\ pinput' = pinput
          /\ tokens' = r.tokens
          /\ error' = r.error
          /\ pc' = IF r.error = "none" THEN "execute" ELSE "raised"
          /\ obs' = [obs EXCEPT !.validate_calls = @ + 1,
                                !.validated = Append(@, pinput.id),
                                !.validate_done = (r.error = "none"),
                                !.validate_error = r.error]
    /\ UNCHANGED <<builder, preferred, alexa, run, cur, events, cancelled,
                   now, stage_started, last_wake_up, src_pos, replay,
                   stt_consumed>>

\* await pipeline_input.validate(): an error leaves build() before execute()
Validate ==
    /\ pc = "validate"
    /\ LET r == validate(pinput, run, tokens) IN
          /\ pinput' = r.input
          /\ tokens' = r.tokens
          /\ error' = r.error
          /\ pc' = IF r.error = "none" THEN "execute" ELSE "raised"
          /\ obs' = [obs EXCEPT !.validate_calls = @ + 1,
                                !.validated = Append(@, pinput.id),
                                !.validate_done = (r.error = "none"),
                                !.validate_error = r.error]
    /\ UNCHANGED <<builder, preferred, alexa, run, cur, events, cancelled,
                   now, stage_started, last_wake_up, src_pos, replay,
                   stt_consumed>>

-----------------------------------------------------------------------------
(* PipelineRun / PipelineInput.execute (design section 4.3) *)

Event(type, stage, data) == [type |-> type, stage |-> stage, data |-> data]

IsTerminal(e) == e.type \in {"run-finished", "run-error"}

\* the ReplayBuffer keeps the most recent `capacity` chunks
Buffered(buf, chunk, capacity) ==
    LET all == Append(buf, chunk) IN
    IF Len(all) <= capacity THEN all
    ELSE SubSeq(all, Len(all) - capacity + 1, Len(all))

\* a detection of word w at time t falls in the cooldown window
InCooldown(map, w, t) == map[w] # Never /\ t - map[w] < Cooldown

\* the WAKE_WORD stage runs detection unless a phrase was supplied
SkipsWakeWord(inp) == inp.wake_word_phrase # "none"

\* execute() has been called and has not emitted its terminal event
Executing == pc \in {"stage", "wake", "stt", "intent", "tts"}

\* variant: build() returns the validated input without executing it
Execute_Skipped ==
    /\ pc = "execute"
    /\ pc' = "done"
    /\ UNCHANGED <<builder, preferred, alexa, error, run, pinput, tokens,
                   cur, events, cancelled, now, stage_started, last_wake_up,
                   src_pos, replay, stt_consumed, obs>>

\* variant: execute() is awaited again on the input that already ran
Execute_Again ==
    /\ pc \in {"execute", "done"}
    /\ obs.execute_calls < 2
    /\ pc' = "stage"
    /\ cur' = run.start_stage
    /\ obs' = [obs EXCEPT !.execute_calls = @ + 1,
                          !.executed = Append(@, [input |-> pinput.id,
                                                  run |-> run.id])]
    /\ UNCHANGED <<builder, preferred, alexa, error, run, pinput, tokens,
                   events, cancelled, now, stage_started, last_wake_up,
                   src_pos, replay, stt_consumed>>

\* await pipeline_input.execute()
Execute ==
    /\ pc = "execute"
    /\ pc' = "stage"
    /\ cur' = run.start_stage
    /\ obs' = [obs EXCEPT !.execute_calls = @ + 1,
                          !.executed = Append(@, [input |-> pinput.id,
                                                  run |-> run.id])]
    /\ UNCHANGED <<builder, preferred, alexa, error, run, pinput, tokens,
                   events, cancelled, now, stage_started, last_wake_up,
                   src_pos, replay, stt_consumed>>

\* run-error: the terminal event of a failed run; buffered audio is released
RunError(code) ==
    /\ events' = Append(events, Event("run-error", cur, code))
    /\ replay' = <<>>
    /\ pc' = "done"

StagePc(s) ==
    IF s = WAKE_WORD THEN "wake"
    ELSE IF s = STT THEN "stt"
    ELSE IF s = INTENT THEN "intent"
    ELSE "tts"

\* between stages: finish, observe cancellation, skip or start the next stage
StageBoundary ==
    /\ pc = "stage"
    /\ IF cur > run.end_stage
       THEN /\ events' = Append(events, Event("run-finished", 0, "none"))
            /\ pc' = "done"
            /\ UNCHANGED <<cur, stage_started, replay>>
       ELSE IF cancelled
       THEN /\ RunError("CancellationError")
            /\ UNCHANGED <<cur, stage_started>>
       ELSE IF cur = WAKE_WORD /\ SkipsWakeWord(pinput)
       THEN /\ cur' = STT
            /\ UNCHANGED <<pc, events, stage_started, replay>>
       ELSE /\ events' = Append(events, Event("stage-started", cur, "none"))
            /\ pc' = StagePc(cur)
            /\ stage_started' = now
            /\ UNCHANGED <<cur, replay>>
    /\ UNCHANGED <<builder, preferred, alexa, error, run, pinput, tokens,
                   cancelled, now, last_wake_up, src_pos, stt_consumed, obs>>

WakeTimedOut == now - stage_started >= WakeTimeout

\* a detection of w now falls within the cooldown window of the last
\* honored detection of w by any run
WithinCooldown(w) ==
    /\ obs.honored_at[w] # Never
    /\ now - obs.honored_at[w] < Cooldown

\* the wake-word scan ends without a detection
WakeAbort ==
    /\ pc = "wake"
    /\ cancelled \/ WakeTimedOut \/ src_pos = MaxChunks
    /\ RunError(IF cancelled THEN "CancellationError" ELSE "StageTimeoutError")
    /\ obs' = [obs EXCEPT !.timed_out = ~cancelled]
    /\ UNCHANGED <<builder, preferred, alexa, error, run, pinput, tokens,
                   cur, cancelled, now, stage_started, last_wake_up, src_pos,
                   stt_consumed>>

\* one chunk goes through the ReplayBuffer to the wake-word engine, which
\* reports nothing, a wake word, or fails
WakeChunk ==
    /\ pc = "wake"
    /\ ~cancelled /\ ~WakeTimedOut /\ src_pos < MaxChunks
    /\ src_pos' = src_pos + 1
    /\ \E r \in {"nothing", "fail"} \cup WakeWords :
          IF r = "nothing"
          THEN /\ replay' = Buffered(replay, src_pos + 1, run.preroll)
               /\ UNCHANGED <<pc, cur, events, last_wake_up, obs>>
          ELSE IF r = "fail"
          THEN /\ RunError("EngineExecutionError")
               /\ obs' = [obs EXCEPT !.failed_stage = WAKE_WORD]
               /\ UNCHANGED <<cur, last_wake_up>>
          ELSE IF InCooldown(last_wake_up, r, now)
          THEN /\ replay' = Buffered(replay, src_pos + 1, run.preroll)
               /\ obs' = [obs EXCEPT !.map_touched = TRUE,
                                     !.detection =
                                        [word |-> r, at |-> now,
                                         honored |-> FALSE,
                                         prior |-> obs.honored_at[r]]]
               /\ UNCHANGED <<pc, cur, events, last_wake_up>>
          ELSE /\ replay' = Buffered(replay, src_pos + 1, run.preroll)
               /\ last_wake_up' = [last_wake_up EXCEPT ![r] = now]
               /\ events' = Append(events, Event("stage-finished", WAKE_WORD, r))
               /\ cur' = STT
               /\ pc' = "stage"
               /\ obs' = [obs EXCEPT !.map_touched = TRUE,
                                     !.detection =
                                        [word |-> r, at |-> now,
                                         honored |-> TRUE,
                                         prior |-> obs.honored_at[r]],
                                     !.honored_at[r] = now,
                                     !.honored_early = @ \/ WithinCooldown(r),
                                     !.detected_at = src_pos + 1]
    /\ UNCHANGED <<builder, preferred, alexa, error, run, pinput, tokens,
                   cancelled, now, stage_started, stt_consumed>>

\* cancellation observed between two chunks of the STT stage
SttAbort ==
    /\ pc = "stt"
    /\ cancelled
    /\ RunError("CancellationError")
    /\ UNCHANGED <<builder, preferred, alexa, error, run, pinput, tokens,
                   cur, cancelled, now, stage_started, last_wake_up, src_pos,
                   stt_consumed, obs>>

\* the outcome of the speech-to-text engine: more audio wanted, end of speech
\* with a transcript, or a failure
SttOutcome(r) ==
    IF r = "more"
    THEN UNCHANGED <<pc, cur, events, obs>>
    ELSE IF r = "end"
    THEN /\ events' = Append(events, Event("stage-finished", STT, "transcript"))
         /\ cur' = INTENT
         /\ pc' = "stage"
         /\ UNCHANGED obs
    ELSE /\ events' = Append(events, Event("run-error", cur, "EngineExecutionError"))
         /\ pc' = "done"
         /\ obs' = [obs EXCEPT !.failed_stage = STT]
         /\ UNCHANGED cur

\* the STT stage consumes the buffered pre-roll first, then the live source
SttChunk ==
    /\ pc = "stt"
    /\ ~cancelled
    /\ replay # <<>> \/ src_pos < MaxChunks
    /\ IF replay # <<>>
       THEN /\ stt_consumed' = Append(stt_consumed, Head(replay))
            /\ UNCHANGED src_pos
       ELSE /\ stt_consumed' = Append(stt_consumed, src_pos + 1)
            /\ src_pos' = src_pos + 1
    /\ \E r \in {"more", "end", "fail"} :
          /\ SttOutcome(r)
          /\ replay' = IF r = "fail" THEN <<>>
                       ELSE IF replay # <<>> THEN Tail(replay) ELSE replay
    /\ UNCHANGED <<builder, preferred, alexa, error, run, pinput, tokens,
                   cancelled, now, stage_started, last_wake_up>>

\* the source is exhausted: the engine concludes
SttExhausted ==
    /\ pc = "stt"
    /\ ~cancelled
    /\ replay = <<>> /\ src_pos = MaxChunks
    /\ \E r \in {"end", "fail"} : SttOutcome(r)
    /\ UNCHANGED <<builder, preferred, alexa, error, run, pinput, tokens,
                   cancelled, now, stage_started, last_wake_up, src_pos,
                   replay, stt_consumed>>

\* the output of the stage before s, "none" if that stage did not run
OutputBefore(s) ==
    IF \E i \in 1..Len(events) : /\ events[i].type = "stage-finished"
                                 /\ events[i].stage = s - 1
    THEN LET i == CHOOSE i \in 1..Len(events) :
                     /\ events[i].type = "stage-finished"
                     /\ events[i].stage = s - 1
         IN events[i].data
    ELSE "none"

\* a stage that awaits one engine result: INTENT or TTS; the engine is
\* given the output of the stage before
EngineStage(s, payload) ==
    /\ pc = StagePc(s)
    /\ \E ok \in BOOLEAN :
          IF ok
          THEN /\ events' = Append(events, Event("stage-finished", s, payload))
               /\ cur' = s + 1
               /\ pc' = "stage"
               /\ obs' = [obs EXCEPT !.inputs[s] = OutputBefore(s)]
               /\ UNCHANGED replay
          ELSE /\ RunError("EngineExecutionError")
               /\ obs' = [obs EXCEPT !.failed_stage = s,
                                     !.inputs[s] = OutputBefore(s)]
               /\ UNCHANGED cur
    /\ UNCHANGED <<builder, preferred, alexa, error, run, pinput, tokens,
                   cancelled, now, stage_started, last_wake_up, src_pos,
                   stt_consumed>>

IntentRun == EngineStage(INTENT, "response")

TtsRun == EngineStage(TTS, "audio")

-----------------------------------------------------------------------------
(* The environment of the run *)

\* the clock and the other runs are followed while this run is at its
\* wake-word stage, the only place where it reads the clock or the map
Scanning == pc \in {"stage", "wake"} /\ cur = WAKE_WORD

\* the clock advances
Tick ==
    /\ Scanning
    /\ now < MaxTime
    /\ now' = now + 1
    /\ UNCHANGED <<builder, preferred, alexa, pc, error, run, pinput, tokens,
                   cur, events, cancelled, stage_started, last_wake_up,
                   src_pos, replay, stt_consumed, obs>>

\* cancellation is signalled on the run's context
Cancel ==
    /\ Executing
    /\ ~cancelled
    /\ cancelled' = TRUE
    /\ obs' = [obs EXCEPT !.stt_len_at_cancel =
                             IF pc = "stt" THEN Len(stt_consumed) ELSE -1]
    /\ UNCHANGED <<builder, preferred, alexa, pc, error, run, pinput, tokens,
                   cur, events, now, stage_started, last_wake_up, src_pos,
                   replay, stt_consumed>>

\* variant: the other run updates the map without the cooldown check
OtherRunWakeUp_Unchecked ==
    /\ Scanning
    /\ \E w \in WakeWords :
          /\ last_wake_up' = [last_wake_up EXCEPT ![w] = now]
          /\ obs' = [obs EXCEPT !.honored_at[w] = now,
                                !.honored_early = @ \/ WithinCooldown(w)]
    /\ UNCHANGED <<builder, preferred, alexa, pc, error, run, pinput, tokens,
                   cur, events, cancelled, now, stage_started, src_pos,
                   replay, stt_consumed>>

\* another run sharing the cooldown map honors a detection of a wake word:
\* the check of the map and its update are one step
OtherRunWakeUp ==
    /\ Scanning
    /\ \E w \in WakeWords :
          /\ ~InCooldown(last_wake_up, w, now)
          /\ last_wake_up' = [last_wake_up EXCEPT ![w] = now]
          /\ obs' = [obs EXCEPT !.honored_at[w] = now,
                                !.honored_early = @ \/ WithinCooldown(w)]
    /\ UNCHANGED <<builder, preferred, alexa, pc, error, run, pinput, tokens,
                   cur, events, cancelled, now, stage_started, src_pos,
                   replay, stt_consumed>>

Next ==
    \/ SetContext
    \/ SetEventCallback
    \/ SetSttMetadata
    \/ SetSttStream
    \/ SetWakeWordPhrase
    \/ SetPipelineId
    \/ SetConversationId
    \/ SetWakeWordSettings
    \/ SetStartStage
    \/ SetEndStage
    \/ Build
    \/ Validate
    \/ Execute
    \/ StageBoundary
    \/ WakeAbort
    \/ WakeChunk
    \/ SttAbort
    \/ SttChunk
    \/ SttExhausted
    \/ IntentRun
    \/ TtsRun
    \/ Tick
    \/ Cancel
    \/ OtherRunWakeUp

Spec == Init /\ [][Next]_vars

-----------------------------------------------------------------------------
(* A run under a clock that advances in every stage, with a source and
   engines that may never deliver (design section 5) *)

\* the deadline that encloses the waits of stage s
StageDeadline(s) ==
    IF s = WAKE_WORD THEN WakeTimeout
    ELSE IF s = STT THEN SilenceTimeout
    ELSE EngineTimeout

\* the run is suspended in a stage, awaiting a chunk or an engine result
Waiting == pc \in {"wake", "stt", "intent", "tts"}

\* the clock advances while the run waits; it is followed up to the deadline
\* of the stage, after which the run no longer waits
ClockAdvance ==
    /\ Waiting
    /\ now - stage_started < StageDeadline(cur)
    /\ now' = now + 1
    /\ UNCHANGED <<builder, preferred, alexa, pc, error, run, pinput, tokens,
                   cur, events, cancelled, stage_started, last_wake_up,
                   src_pos, replay, stt_consumed, obs>>

\* the deadline of a stage after WAKE_WORD expires: the wait is cancelled and
\* the run ends with run-error
StageTimeout ==
    /\ pc \in {"stt", "intent", "tts"}
    /\ now - stage_started >= StageDeadline(cur)
    /\ RunError("StageTimeoutError")
    /\ obs' = [obs EXCEPT !.timed_out = TRUE]
    /\ UNCHANGED <<builder, preferred, alexa, error, run, pinput, tokens,
                   cur, cancelled, now, stage_started, last_wake_up, src_pos,
                   stt_consumed>>

\* a builder whose caller has assigned the required fields and a range that
\* ends at TTS, before build() is called
InitConfigured ==
    /\ \E a \in {WAKE_WORD, STT}, p \in 0..MaxPreroll :
          builder = [BuilderInit EXCEPT !.context = TRUE,
                                        !.event_callback = TRUE,
                                        !.stt_metadata = "pcm",
                                        !.stt_stream = TRUE,
                                        !.wake_word_settings = Settings(p),
                                        !.start_stage = a]
    /\ pc = "idle"
    /\ error = "none"
    /\ run = NoRun
    /\ pinput = NoInput
    /\ tokens = 0
    /\ cur = 0
    /\ events = <<>>
    /\ cancelled = FALSE
    /\ now = 0
    /\ stage_started = 0
    /\ last_wake_up = async_setup_last_wake_up
    /\ src_pos = 0
    /\ replay = <<>>
    /\ stt_consumed = <<>>
    /\ obs = [ObsInit EXCEPT !.stage_assigned = TRUE]
    /\ preferred = PreferredPipeline
    /\ alexa = AlexaInit

NextLive ==
    \/ Build
    \/ Validate
    \/ Execute
    \/ StageBoundary
    \/ WakeAbort
    \/ WakeChunk
    \/ SttAbort
    \/ SttChunk
    \/ SttExhausted
    \/ IntentRun
    \/ TtsRun
    \/ StageTimeout
    \/ ClockAdvance
    \/ Cancel

\* the scheduler runs every step the run itself can take and the clock
\* advances; nothing obliges the source to deliver a chunk or an engine to
\* deliver a result
Fairness ==
    /\ WF_vars(Build)
    /\ WF_vars(Validate)
    /\ WF_vars(Execute)
    /\ WF_vars(StageBoundary)
    /\ WF_vars(WakeAbort)
    /\ WF_vars(SttAbort)
    /\ WF_vars(StageTimeout)
    /\ WF_vars(ClockAdvance)

SpecLive == InitConfigured /\ [][NextLive]_vars /\ Fairness

-----------------------------------------------------------------------------
(* build() called again on the same builder *)

\* build() has returned or raised and its caller calls it again: the run and
\* the input of the call that ended are gone with its frame and its events
\* have been delivered; the builder and the audio stream it holds are the
\* same
Returned ==
    /\ pc \in {"done", "raised"}
    /\ obs.built < MaxBuilds
    /\ pc' = "idle"
    /\ error' = "none"
    /\ events' = <<>>
    /\ replay' = <<>>
    /\ stt_consumed' = <<>>
    /\ UNCHANGED <<builder, preferred, alexa, run, pinput, tokens, cur,
                   cancelled, now, stage_started, last_wake_up, src_pos,
                   obs>>

NextRebuild ==
    \/ Build
    \/ Validate
    \/ Execute
    \/ StageBoundary
    \/ WakeAbort
    \/ WakeChunk
    \/ SttAbort
    \/ SttChunk
    \/ SttExhausted
    \/ IntentRun
    \/ TtsRun
    \/ Cancel
    \/ Returned

SpecRebuild == InitConfigured /\ [][NextRebuild]_vars

-----------------------------------------------------------------------------
(* Requests to the AlexaFlashBriefingView *)

\* the view is registered with a configuration; no request yet
InitBriefing ==
    /\ builder = BuilderInit
    /\ pc = "idle"
    /\ error = "none"
    /\ run = NoRun
    /\ pinput = NoInput
    /\ tokens = 0
    /\ cur = 0
    /\ events = <<>>
    /\ cancelled = FALSE
    /\ now = 0
    /\ stage_started = 0
    /\ last_wake_up = async_setup_last_wake_up
    /\ src_pos = 0
    /\ replay = <<>>
    /\ stt_consumed = <<>>
    /\ obs = ObsInit
    /\ preferred = PreferredPipeline
    /\ \E password \in Passwords, news \in BriefingConfigs,
          weather \in {None, List(<<ItemWeather>>)} :
          alexa = View(FlashBriefings(password, news, weather))

\* a GET on /api/alexa/flash_briefings/{briefing_id}
Get ==
    /\ \E password \in {None} \cup {Str(p) : p \in Passwords},
          briefing_id \in BriefingIds, uuid \in Uuids, date \in Dates :
          LET request == [query |-> [password |-> password],
                          briefing_id |-> briefing_id]
          IN  alexa' = [alexa EXCEPT
                          !.request = request,
                          !.response = get(alexa, request, briefing_id,
                                           [uuid |-> uuid, date |-> date])]
    /\ UNCHANGED <<builder, RunVars, obs>>

NextBriefing == Get

SpecBriefing == InitBriefing /\ [][NextBriefing]_vars

-----------------------------------------------------------------------------
(* Properties *)

\* C1: a run whose execute() was started emits exactly one terminal event
\* (run-finished or run-error) over its lifetime, and no event after it:
\* at most one terminal event ever, only in last position, and exactly one
\* once execute() has returned.
C1_OneTerminalEvent ==
    LET terminal == {i \in 1..Len(events) : IsTerminal(events[i])} IN
    /\ Cardinality(terminal) <= 1
    /\ \A i \in terminal : i = Len(events)
    /\ obs.execute_calls > 0 /\ pc = "done" => Cardinality(terminal) = 1
    /\ obs.execute_calls > 0 /\ pc # "done" => terminal = {}
    /\ obs.execute_calls = 0 => events = <<>>

C1_Witness ==
    /\ pc = "done"
    /\ cancelled
    /\ Len(events) >= 3
    /\ events[Len(events)].type = "run-error"

\* C2: build() fails with the configuration error whenever one of context,
\* event callback, STT metadata or audio stream is absent; then no run and
\* no input is constructed, the registry is not queried and neither
\* validate() nor execute() is called.
C2_MissingFieldFailsFast ==
    (/\ pc # "idle"
     /\ \/ ~builder.context
        \/ ~builder.event_callback
        \/ builder.stt_metadata = "none"
        \/ ~builder.stt_stream)
    => /\ pc = "raised"
       /\ error = "ValueError"
       /\ ~run.exists
       /\ ~pinput.exists
       /\ ~obs.registry_queried
       /\ obs.validate_calls = 0
       /\ obs.execute_calls = 0

C2_Witness ==
    /\ pc = "raised"
    /\ error = "ValueError"
    /\ builder.context
    /\ builder.event_callback
    /\ builder.stt_metadata # "none"
    /\ ~builder.stt_stream

\* C3 as stated: after a successful build() the input has been validated,
\* execute() has not been called on it, no audio chunk has been consumed and
\* no event has been emitted.
C3_BuildRunsNothing ==
    pc = "done" => /\ obs.validate_done
                   /\ obs.execute_calls = 0
                   /\ src_pos = 0
                   /\ events = <<>>

\* C3 amended: build() validates the input and then executes it itself.
\* After a build() that returned, validate() has completed once without
\* error and execute() was called once, after it, and has emitted the run's
\* terminal event; until execute() is called no chunk is consumed and no
\* event is emitted.
C3_BuildValidatesThenExecutes ==
    /\ pc = "done" => /\ obs.validate_done
                      /\ obs.validate_calls = 1
                      /\ obs.execute_calls = 1
                      /\ events # <<>>
                      /\ IsTerminal(events[Len(events)])
    /\ obs.execute_calls > 0 => obs.validate_done
    /\ pc \in {"idle", "validate", "execute"} =>
          /\ obs.execute_calls = 0
          /\ src_pos = 0
          /\ stt_consumed = <<>>
          /\ events = <<>>

C3_Witness ==
    /\ pc = "done"
    /\ src_pos > 0
    /\ events[Len(events)].type = "run-finished"

\* C4: when build() fails (required-field check, pipeline lookup or
\* validate()), no audio chunk has been read, no event has been delivered,
\* and execute() is not started for that input, then or later; execute()
\* starts only after validate() has completed without error.
C4_FailureBeforeAnyEffect ==
    /\ pc = "raised" => /\ error # "none"
                        /\ src_pos = 0
                        /\ stt_consumed = <<>>
                        /\ events = <<>>
                        /\ obs.execute_calls = 0
    /\ obs.validate_error # "none" => /\ pc = "raised"
                                      /\ error = obs.validate_error
                                      /\ obs.execute_calls = 0
                                      /\ events = <<>>
                                      /\ src_pos = 0
    /\ obs.execute_calls > 0 => obs.validate_done /\ error = "none"

C4_Witness ==
    /\ pc = "raised"
    /\ error = "EngineNotFoundError"
    /\ obs.validate_calls = 1

\* C5 as stated: stage-started occurs only for stages in the configured
\* range, in stage order, at most once per stage, and for a stage after the
\* first one of the range only after stage-finished of the stage before it.
C5_PrecedingStageFinished ==
    \A i \in 1..Len(events) :
       events[i].type = "stage-started" =>
          /\ builder.start_stage <= events[i].stage
          /\ events[i].stage <= builder.end_stage
          /\ \A j \in 1..(i - 1) :
                events[j].type = "stage-started" =>
                   events[j].stage < events[i].stage
          /\ events[i].stage > builder.start_stage =>
                \E k \in 1..(i - 1) :
                   /\ events[k].type = "stage-finished"
                   /\ events[k].stage = events[i].stage - 1

\* C5 amended: as stated, except that a WAKE_WORD stage skipped because a
\* wake-word phrase was supplied emits no event and gates nothing; every
\* stage started earlier has emitted stage-finished before the next starts.
C5_StagesSequential ==
    \A i \in 1..Len(events) :
       events[i].type = "stage-started" =>
          /\ builder.start_stage <= events[i].stage
          /\ events[i].stage <= builder.end_stage
          /\ \A j \in 1..(i - 1) :
                events[j].type = "stage-started" =>
                   /\ events[j].stage < events[i].stage
                   /\ \E k \in (j + 1)..(i - 1) :
                         /\ events[k].type = "stage-finished"
                         /\ events[k].stage = events[j].stage
          /\ (/\ events[i].stage > builder.start_stage
              /\ ~(/\ events[i].stage - 1 = WAKE_WORD
                   /\ builder.wake_word_phrase # "none")) =>
                \E k \in 1..(i - 1) :
                   /\ events[k].type = "stage-finished"
                   /\ events[k].stage = events[i].stage - 1

C5_Witness ==
    /\ builder.start_stage = WAKE_WORD
    /\ builder.wake_word_phrase = "none"
    /\ \E i \in 1..Len(events) :
          events[i].type = "stage-started" /\ events[i].stage = TTS

\* C6: a detection of wake word W is suppressed exactly when it falls within
\* the cooldown window after the last honored detection of the same word W
\* (by this run or another one); a suppressed detection does not finish the
\* WAKE_WORD stage, an honored one does.
C6_CooldownPerWakeWord ==
    LET d == obs.detection IN
    d.word # "none" =>
       /\ ~d.honored <=> (d.prior # Never /\ d.at - d.prior < Cooldown)
       /\ ~d.honored =>
             \A i \in 1..Len(events) :
                ~(events[i].type = "stage-finished"
                  /\ events[i].stage = WAKE_WORD)
       /\ d.honored =>
             \E i \in 1..Len(events) :
                /\ events[i].type = "stage-finished"
                /\ events[i].stage = WAKE_WORD
                /\ events[i].data = d.word

C6_Witness ==
    /\ obs.detection.word = "w1"
    /\ ~obs.detection.honored
    /\ pc = "wake"
    /\ last_wake_up["w2"] = Never

\* C7: a run whose start_stage is after WAKE_WORD, and every run built with
\* the range the builder was constructed with, neither reads nor writes the
\* cooldown map, which keeps the contents it had.
C7_NoCooldownAccessAfterWakeWord ==
    /\ run.exists /\ builder.start_stage > WAKE_WORD =>
          /\ ~obs.map_touched
          /\ \A w \in WakeWords : last_wake_up[w] = Never
    /\ run.exists /\ ~obs.stage_assigned =>
          /\ ~obs.map_touched
          /\ \A w \in WakeWords : last_wake_up[w] = Never

C7_Witness ==
    /\ pc = "done"
    /\ ~obs.stage_assigned
    /\ src_pos > 0
    /\ events[Len(events)].type = "run-finished"

\* the chunks a..b of the source, in source order
Chunks(a, b) == [i \in 1..(b - a + 1) |-> a + i - 1]

\* the stream presented to the STT stage after a detection at chunk d with
\* n chunks of pre-roll: chunks d-n+1..d, then every later chunk
Presented(d, n) == Chunks(d - n + 1, d) \o Chunks(d + 1, MaxChunks)

\* the STT stage has consumed, in order and without gap, the stream
\* presented after a detection at chunk d with n chunks of pre-roll
ConsumedAfterDetection(d, n) ==
    /\ Len(stt_consumed) <= Len(Presented(d, n))
    /\ stt_consumed = SubSeq(Presented(d, n), 1, Len(stt_consumed))
    /\ src_pos >= d
    /\ src_pos = d => Len(stt_consumed) <= n
    /\ src_pos > d => Len(stt_consumed) = n + (src_pos - d)

\* the WAKE_WORD stage of the run has started
WakeWordStageRan ==
    \E i \in 1..Len(events) :
       events[i].type = "stage-started" /\ events[i].stage = WAKE_WORD

\* C8 as stated: after a detection at chunk d with a configured pre-roll of
\* p chunks, STT consumes exactly the p chunks before the detection and then
\* every chunk after it, in source order, none duplicated, none dropped;
\* when WAKE_WORD is skipped STT consumes the source directly.
C8_ReplayExactlyPreroll ==
    IF obs.detected_at > 0
    THEN ConsumedAfterDetection(obs.detected_at,
                                builder.wake_word_settings.preroll)
    ELSE IF WakeWordStageRan
    THEN stt_consumed = <<>>
    ELSE stt_consumed = Chunks(1, src_pos)

\* C8 amended: the pre-roll replayed is the last min(p, d) chunks read up to
\* the detection (all d of them when fewer than p were read); the rest as
\* stated.
C8_ReplayBufferedPreroll ==
    IF obs.detected_at > 0
    THEN ConsumedAfterDetection(
            obs.detected_at,
            IF builder.wake_word_settings.preroll <= obs.detected_at
            THEN builder.wake_word_settings.preroll
            ELSE obs.detected_at)
    ELSE IF WakeWordStageRan
    THEN stt_consumed = <<>>
    ELSE stt_consumed = Chunks(1, src_pos)

C8_Witness ==
    /\ obs.detected_at = 2
    /\ builder.wake_word_settings.preroll = 2
    /\ stt_consumed = <<1, 2, 3>>

C10_EngineFailureHalts ==
    obs.failed_stage # 0 =>
       /\ pc = "done"
       /\ Len(events) >= 2
       /\ events[Len(events)]
             = Event("run-error", obs.failed_stage, "EngineExecutionError")
       /\ events[Len(events) - 1]
             = Event("stage-started", obs.failed_stage, "none")
       /\ \A i \in 1..Len(events) :
             /\ ~(events[i].type = "stage-finished"
                  /\ events[i].stage = obs.failed_stage)
             /\ ~(events[i].type = "stage-started"
                  /\ events[i].stage > obs.failed_stage)

C10_Witness ==
    /\ obs.failed_stage = STT
    /\ Len(stt_consumed) >= 2
    /\ pc = "done"

\* C11: when cancellation is signalled while the STT stage consumes chunks,
\* the run consumes at most one more chunk and then ends with
\* run-error(CancellationError) as its last event; stage-finished(STT) is
\* never emitted, no later stage starts and the buffered audio is released.
C11_CancelledMidStt ==
    obs.stt_len_at_cancel >= 0 =>
       /\ pc \in {"stt", "done"}
       /\ Len(stt_consumed) <= obs.stt_len_at_cancel + 1
       /\ pc = "done" =>
             /\ events[Len(events)]
                   = Event("run-error", STT, "CancellationError")
             /\ replay = <<>>
       /\ \A i \in 1..Len(events) :
             /\ ~(events[i].type = "stage-finished" /\ events[i].stage = STT)
             /\ ~(events[i].type = "stage-started" /\ events[i].stage > STT)
             /\ IsTerminal(events[i]) => i = Len(events)

C11_Witness ==
    /\ obs.stt_len_at_cancel = 2
    /\ pc = "done"
    /\ builder.start_stage = WAKE_WORD

\* the events of a run that starts, and finishes, every stage from a to b
RECURSIVE StageEvents(_, _)
StageEvents(a, b) ==
    IF a > b THEN <<>>
    ELSE <<Event("stage-started", a, "none"),
           Event("stage-finished", a,
                 IF a = WAKE_WORD THEN obs.detection.word
                 ELSE IF a = STT THEN "transcript"
                 ELSE IF a = INTENT THEN "response"
                 ELSE "audio")>>
         \o StageEvents(a + 1, b)

\* the run has ended without engine failure, cancellation or timeout
FailureFree ==
    /\ pc = "done"
    /\ obs.failed_stage = 0
    /\ ~cancelled
    /\ ~obs.timed_out

\* each engine that ran was given the output of the stage before it
OutputsPassedOn ==
    /\ (builder.start_stage <= STT /\ builder.end_stage >= INTENT) =>
          obs.inputs[INTENT] = "transcript"
    /\ (builder.start_stage <= INTENT /\ builder.end_stage >= TTS) =>
          obs.inputs[TTS] = "response"

\* C12 as stated: a failure-free run emits stage-started then stage-finished
\* for each stage of its range, in order, then run-finished (for the range
\* STT..TTS the seven events of the scenario), each stage's output being
\* the next stage's input.
C12_EveryInRangeStageReported ==
    FailureFree =>
       /\ events = StageEvents(builder.start_stage, builder.end_stage)
                      \o <<Event("run-finished", 0, "none")>>
       /\ OutputsPassedOn

\* C12 amended: as stated, except that a WAKE_WORD stage skipped because a
\* wake-word phrase was supplied emits no events.
C12_FailureFreeSequence ==
    /\ FailureFree =>
          /\ events = StageEvents(
                         IF /\ builder.start_stage = WAKE_WORD
                            /\ builder.wake_word_phrase # "none"
                         THEN STT ELSE builder.start_stage,
                         builder.end_stage)
                      \o <<Event("run-finished", 0, "none")>>
          /\ OutputsPassedOn
    /\ FailureFree /\ ~obs.stage_assigned =>
          events = <<Event("stage-started", 2, "none"),
                     Event("stage-finished", 2, "transcript"),
                     Event("stage-started", 3, "none"),
                     Event("stage-finished", 3, "response"),
                     Event("stage-started", 4, "none"),
                     Event("stage-finished", 4, "audio"),
                     Event("run-finished", 0, "none")>>

C12_Witness ==
    /\ FailureFree
    /\ ~obs.stage_assigned
    /\ Len(events) = 7

\* C13: with the four required fields present, a build() whose pipeline
\* identifier does not resolve while the registry has no default fails with
\* pipeline-not-found, constructs no run and no input and calls neither
\* validate() nor execute(); a build() given no identifier binds the run to
\* the registry's default pipeline.
C13_PipelineResolution ==
    (pc # "idle" /\ RequiredPresent(builder)) =>
       /\ (builder.pipeline_id \notin Pipelines /\ preferred = "none") =>
             /\ pc = "raised"
             /\ error = "PipelineNotFound"
             /\ run = NoRun
             /\ pinput = NoInput
             /\ obs.validate_calls = 0
             /\ obs.execute_calls = 0
             /\ events = <<>>
       /\ (builder.pipeline_id = "none" /\ preferred # "none") =>
             /\ error # "PipelineNotFound"
             /\ ValidStageRange(builder) => run.exists
             /\ run.exists => run.pipeline = preferred

C13_Witness ==
    /\ pc = "raised"
    /\ error = "PipelineNotFound"
    /\ RequiredPresent(builder)
    /\ builder.pipeline_id = "nope"
    /\ preferred = "none"

EndedUndetected ==
    /\ obs.execute_calls > 0
    /\ run.start_stage = WAKE_WORD
    /\ obs.detected_at = 0
    /\ \/ src_pos = MaxChunks
       \/ obs.timed_out
       \/ pc = "wake" /\ WakeTimedOut

\* the run has finished no WAKE_WORD stage, has started no later stage, and
\* if it has ended it ended with a run-error as its only terminal event
WakeWordNeverFinished ==
    /\ cur = WAKE_WORD
    /\ \A i \in 1..Len(events) :
          /\ ~(events[i].type = "stage-finished" /\ events[i].stage = WAKE_WORD)
          /\ ~(events[i].type = "stage-started" /\ events[i].stage > WAKE_WORD)
          /\ IsTerminal(events[i]) => i = Len(events)
    /\ pc = "done" =>
          /\ events # <<>>
          /\ events[Len(events)].type = "run-error"

\* C15 as stated: in every run whose range includes WAKE_WORD, when the
\* source is exhausted or the wake-word timeout expires before an honored
\* detection, the run ends with run-error, emits no stage-finished(WAKE_WORD)
\* and starts none of STT, INTENT, TTS.
C15_RangeIncludesWakeWord ==
    EndedUndetected => WakeWordNeverFinished

\* C15 amended: the same, for the runs whose WAKE_WORD stage runs, that is
\* whose range includes WAKE_WORD and that were given no wake-word phrase;
\* detections suppressed by the cooldown do not end the stage.
C15_NoDetectionEndsRun ==
    (EndedUndetected /\ builder.wake_word_phrase = "none")
       => WakeWordNeverFinished

C15_Witness ==
    /\ EndedUndetected
    /\ builder.wake_word_phrase = "none"
    /\ src_pos = MaxChunks
    /\ obs.detection.word # "none"
    /\ ~obs.detection.honored
    /\ pc = "done"

Terminated ==
    /\ pc = "done"
    /\ events # <<>>
    /\ IsTerminal(events[Len(events)])

C18_FreshRunAndInput ==
    /\ \A i \in 1..Len(obs.executed) :
          /\ \E k \in 1..Len(obs.validated) :
                obs.validated[k] = obs.executed[i].input
          /\ \A j \in 1..Len(obs.executed) :
                i # j => /\ obs.executed[i].input # obs.executed[j].input
                         /\ obs.executed[i].run # obs.executed[j].run
    /\ Len(obs.executed) <= Len(obs.validated)
    /\ Len(obs.validated) <= obs.built
    /\ (pc \in {"validate", "execute"} \/ Executing) =>
          /\ run.id = obs.built
          /\ pinput.id = obs.built

C18_Witness ==
    /\ Len(obs.executed) = 2
    /\ obs.built = 2
    /\ pc = "done"
    /\ run.id = 2

\* the request the view answered last carried the configured password
PasswordMatches ==
    /\ alexa.request.query.password.kind = "str"
    /\ alexa.request.query.password.text
          = alexa.flash_briefings["password"].text

\* what the configuration holds under the requested briefing identifier
Requested ==
    IF alexa.request.briefing_id \in DOMAIN alexa.flash_briefings
    THEN alexa.flash_briefings[alexa.request.briefing_id]
    ELSE None

\* C19: the view answers with briefing content only when the request carries
\* a password equal to the configured one; a request without a password or
\* with a wrong one gets the empty body with status UNAUTHORIZED whatever its
\* briefing identifier, configured or not; a request with the right password
\* for an identifier whose configuration is not a list gets the empty body
\* with status NOT_FOUND.
C19_PasswordGuardsBriefing ==
    alexa.response.status # "none" =>
       /\ ~PasswordMatches =>
             alexa.response = [body |-> Empty, status |-> "UNAUTHORIZED"]
       /\ alexa.response.body.kind = "json" =>
             /\ PasswordMatches
             /\ Requested.kind = "list"
             /\ alexa.response.status = "OK"
             /\ Len(alexa.response.body.json) = Len(Requested.items)
       /\ (PasswordMatches /\ Requested.kind # "list") =>
             alexa.response = [body |-> Empty, status |-> "NOT_FOUND"]
       /\ (PasswordMatches /\ Requested.kind = "list") =>
             alexa.response.body.kind = "json"

C19_Witness ==
    /\ alexa.response.status = "UNAUTHORIZED"
    /\ alexa.request.query.password.kind = "str"
    /\ alexa.request.briefing_id = "news"
    /\ Requested.kind = "list"
    /\ Requested.items # <<>>

=============================================================================
